---- MODULE Spec2Model ----
(***************************************************************************)
(* Ann Investment Company backend (server.js): the users collection, the   *)
(* Express middleware and the route handlers, each handler cut at its      *)
(* awaits so that one action is one synchronous run of the handler up to   *)
(* (and including) the store or upload round-trip it is waiting for.       *)
(***************************************************************************)
EXTENDS Integers, Sequences, FiniteSets, TLC

VARIABLES
  users,    \* the users collection: _id -> stored document
  nextId,   \* the next _id the store hands out (ObjectIds are never reused)
  pc,       \* per request slot: where its handler is suspended
  req,      \* per request slot: the request being served
  doc,      \* per request slot: the document the handler read (<<>> or <<d>>)
  uploads,  \* per request slot: register's uploads object and files left to upload
  res,      \* per request slot: the response written
  hist      \* per account: journal of the successful writes, in order

vars == <<users, nextId, pc, req, doc, uploads, res, hist>>

----------------------------------------------------------------------------
\* Bounds of the model.

MaxUsers == 3
MaxWrites == 3

Slots == {"r1", "r2"}
Emails == {"a@x", "b@x"}
Amounts == {-1, 0, 2}

----------------------------------------------------------------------------
\* Schema.

TxEnum == {"deposit", "investment", "withdrawal"}

\* the value of a body field that the request does not carry
Undefined == "undefined"

SchemaPaths ==
  {"firstName", "lastName", "email", "phone", "dob", "street", "city", "state",
   "zip", "password", "idFrontUrl", "idBackUrl", "selfieUrl", "verified",
   "frozen", "balance", "totalDeposit", "totalWithdrawal", "totalInvestment",
   "minDeposit", "minWithdrawal", "transactions"}

\* new User({...}) with the schema defaults
newUser(body, up) ==
  [firstName |-> body.firstName, lastName |-> body.lastName,
   email |-> body.email, phone |-> body.phone, dob |-> body.dob,
   street |-> body.street, city |-> body.city, state |-> body.state,
   zip |-> body.zip, password |-> body.password,
   idFrontUrl |-> up.idFrontUrl, idBackUrl |-> up.idBackUrl,
   selfieUrl |-> up.selfieUrl,
   verified |-> FALSE, frozen |-> FALSE,
   balance |-> 0, totalDeposit |-> 0, totalWithdrawal |-> 0,
   totalInvestment |-> 0, minDeposit |-> 0, minWithdrawal |-> 0,
   transactions |-> <<>>]

----------------------------------------------------------------------------
\* Requests and responses.

NoBody == [k \in {} |-> ""]
NoToken == [id |-> 0, role |-> "absent"]
NoUploads == [idFrontUrl |-> "", idBackUrl |-> "", selfieUrl |-> "", pending |-> <<>>]
IdleReq == [route |-> "none", auth |-> "none", token |-> NoToken, id |-> 0,
            body |-> NoBody, files |-> <<>>]
NoRes == [status |-> 0, message |-> ""]

field(body, k) == IF k \in DOMAIN body THEN body[k] ELSE Undefined

Reply(status, message) == [status |-> status, message |-> message]

AdminRoutes == {"listUsers", "getUser", "updateUser", "verify", "freeze",
                "transactions", "deleteUser"}
TokenRoutes == AdminRoutes \cup {"updateProfile"}

\* authMiddleware: "next" or the response it writes
authMiddleware(q) ==
  IF q.auth = "none" THEN Reply(401, "Missing authorization header")
  ELSE IF q.auth = "malformed" THEN Reply(401, "Invalid token format")
  ELSE IF q.auth = "invalid" THEN Reply(401, "Invalid/expired token")
  ELSE Reply(0, "next")

\* variant: only an explicit 'user' role is turned away
adminMiddlewareRejectsUserOnly(q) ==
  IF q.token.role = "user" THEN Reply(403, "Admin access only")
  ELSE Reply(0, "next")

\* adminMiddleware, run after authMiddleware set req.user
adminMiddleware(q) ==
  IF q.token.role # "admin" THEN Reply(403, "Admin access only")
  ELSE Reply(0, "next")

\* the middleware chain of a route
middleware(q) ==
  IF q.route \notin TokenRoutes THEN Reply(0, "next")
  ELSE LET a == authMiddleware(q) IN
       IF a.message # "next" THEN a
       ELSE IF q.route \in AdminRoutes THEN adminMiddleware(q)
       ELSE a

\* the first store call of each handler
firstAwait(q) ==
  CASE q.route = "register" -> "findOne"
    [] q.route \in {"verify", "freeze", "transactions", "getUser"} -> "findById"
    [] q.route \in {"updateUser", "updateProfile"} -> "findByIdAndUpdate"
    [] q.route = "deleteUser" -> "findByIdAndDelete"
    [] OTHER -> "find"

Falsy(v) == v = "" \/ v = Undefined

missingRequired(body) ==
  \E k \in {"firstName", "lastName", "email", "phone", "dob", "password"} :
     Falsy(field(body, k))

\* const { ..., street = '', city = '', state = '', zip = '', password } = req.body
registerFields(body) ==
  [k \in {"firstName", "lastName", "email", "phone", "dob", "password",
          "street", "city", "state", "zip"} |->
     IF k \in {"street", "city", "state", "zip"} /\ k \notin DOMAIN body
       THEN "" ELSE field(body, k)]

----------------------------------------------------------------------------
\* Mongoose documents.

\* variant: a withdrawal credited to the balance
applyTransactionWithdrawalAdds(u, body) ==
  LET type == field(body, "type")
      amount == body.amount
      pushed == [u EXCEPT !.transactions =
                   Append(@, [type |-> type, amount |-> amount])]
  IN IF type = "deposit"
       THEN [pushed EXCEPT !.totalDeposit = @ + amount, !.balance = @ + amount]
     ELSE IF type = "withdrawal"
       THEN [pushed EXCEPT !.totalWithdrawal = @ + amount, !.balance = @ + amount]
     ELSE IF type = "investment"
       THEN [pushed EXCEPT !.totalInvestment = @ + amount, !.balance = @ - amount]
     ELSE pushed

\* lines 407-412 on the in-memory document
applyTransaction(u, body) ==
  LET type == field(body, "type")
      amount == body.amount
      pushed == [u EXCEPT !.transactions =
                   Append(@, [type |-> type, amount |-> amount])]
      dep == IF type = "deposit"
               THEN [pushed EXCEPT !.totalDeposit = @ + amount,
                                   !.balance = @ + amount]
               ELSE pushed
      wdr == IF type = "withdrawal"
               THEN [dep EXCEPT !.totalWithdrawal = @ + amount,
                                !.balance = @ - amount]
               ELSE dep
  IN IF type = "investment"
       THEN [wdr EXCEPT !.totalInvestment = @ + amount, !.balance = @ - amount]
       ELSE wdr

\* variant: a schema without the enum
validatesAnyType(d) == TRUE

\* schema validation run by save(): the enum of transactions.type (an
\* undefined type passes the enum validator)
validates(d) ==
  \A i \in 1..Len(d.transactions) :
     d.transactions[i].type \in TxEnum \cup {Undefined}

LedgerFields == {"balance", "totalDeposit", "totalWithdrawal", "totalInvestment"}

\* variant: the ledger fields written as atomic $inc of the handler's change
savedDocAtomicInc(stored, snap, d) ==
  [f \in DOMAIN stored |->
     IF f = "transactions"
       THEN stored.transactions \o
            SubSeq(d.transactions, Len(snap.transactions) + 1, Len(d.transactions))
       ELSE IF f \in LedgerFields THEN stored[f] + (d[f] - snap[f])
       ELSE IF d[f] # snap[f] THEN d[f] ELSE stored[f]]

\* what save() of a loaded document writes: $push of the pushed subdocuments
\* and $set of the paths whose value was changed, in one updateOne
savedDoc(stored, snap, d) ==
  [f \in DOMAIN stored |->
     IF f = "transactions"
       THEN stored.transactions \o
            SubSeq(d.transactions, Len(snap.transactions) + 1, Len(d.transactions))
       ELSE IF d[f] # snap[f] THEN d[f] ELSE stored[f]]

\* the journal entry of a successful write on account id
noted(id, route, body) ==
  [hist EXCEPT ![id] = Append(@, [route |-> route, type |-> field(body, "type"),
                                  amount |-> IF "amount" \in DOMAIN body
                                               THEN body.amount ELSE 0,
                                  before |-> users[id].frozen])]

\* the account a request writes: req.params.id, or req.user.id for the profile
target(q) == IF q.route = "updateProfile" THEN q.token.id ELSE q.id

WriteRoutes == {"transactions", "freeze", "verify", "updateUser", "updateProfile"}

\* requests suspended before their write on account id
inFlight(id) ==
  Cardinality({s \in Slots : /\ pc[s] \in {"findById", "save", "findByIdAndUpdate"}
                             /\ req[s].route \in WriteRoutes
                             /\ target(req[s]) = id})

\* register requests suspended before their insert
registering ==
  Cardinality({s \in Slots : pc[s] \in {"findOne", "upload", "insert"}})

----------------------------------------------------------------------------
\* The initial store: two freshly registered accounts.

SeedBody(e) ==
  [firstName |-> "Ann", lastName |-> "Lee", email |-> e, phone |-> "555",
   dob |-> "1990", password |-> "pw"]

SeedUsers ==
  (1 :> newUser(registerFields(SeedBody("a@x")), NoUploads)) @@
  (2 :> newUser(registerFields(SeedBody("b@x")), NoUploads))

Init ==
  /\ users = SeedUsers
  /\ nextId = Cardinality(DOMAIN SeedUsers) + 1
  /\ pc = [s \in Slots |-> "idle"]
  /\ req = [s \in Slots |-> IdleReq]
  /\ doc = [s \in Slots |-> <<>>]
  /\ uploads = [s \in Slots |-> NoUploads]
  /\ res = [s \in Slots |-> NoRes]
  /\ hist = [i \in 0..MaxUsers |-> <<>>]

----------------------------------------------------------------------------
\* Handlers.

respond(r, status, message) ==
  /\ pc' = [pc EXCEPT ![r] = "done"]
  /\ res' = [res EXCEPT ![r] = Reply(status, message)]

\* a request arrives: the middleware chain and the handler up to its first await
Begin(r, q) ==
  /\ pc[r] = "idle"
  /\ q.route \in WriteRoutes /\ target(q) \in DOMAIN users
       => Len(hist[target(q)]) + inFlight(target(q)) < MaxWrites
  /\ q.route = "register" => nextId + registering <= MaxUsers
  /\ req' = [req EXCEPT ![r] = q]
  /\ LET m == middleware(q) IN
       IF m.message # "next"
         THEN respond(r, m.status, m.message)
         ELSE IF q.route = "register" /\ missingRequired(q.body)
           THEN respond(r, 400, "Missing required fields")
           ELSE /\ pc' = [pc EXCEPT ![r] = firstAwait(q)]
                /\ res' = res
  /\ UNCHANGED <<users, nextId, doc, uploads, hist>>

\* await user.save() of the document d made from the one the handler read,
\* and the response of either outcome
save(r, d, okMessage, failMessage) ==
  LET id == req[r].id
      snap == doc[r][1]
  IN IF ~validates(d) \/ id \notin DOMAIN users
       THEN /\ respond(r, 500, failMessage)
            /\ UNCHANGED <<users, hist>>
       ELSE /\ users' = [users EXCEPT ![id] = savedDoc(@, snap, d)]
            /\ hist' = noted(id, req[r].route, req[r].body)
            /\ respond(r, 200, okMessage)

\* User.findById of a handler that then changes and saves the document
findById(r) ==
  /\ pc[r] = "findById"
  /\ IF req[r].id \notin DOMAIN users
       THEN /\ respond(r, 404, "User not found")
            /\ doc' = doc
       ELSE /\ doc' = [doc EXCEPT ![r] = <<users[req[r].id]>>]
            /\ pc' = [pc EXCEPT ![r] = "save"]
            /\ res' = res
  /\ UNCHANGED <<users, nextId, req, uploads, hist>>

\* POST /api/admin/user/:id/transactions: User.findById
TransactionsFind(r) == req[r].route = "transactions" /\ findById(r)

\* POST /api/admin/user/:id/transactions: push, totals, user.save
TransactionsSave(r) ==
  /\ pc[r] = "save" /\ req[r].route = "transactions"
  /\ save(r, applyTransaction(doc[r][1], req[r].body),
          "Transaction added", "Failed to add transaction")
  /\ UNCHANGED <<nextId, req, doc, uploads>>

\* PATCH /api/admin/user/:id/freeze
FreezeFind(r) == req[r].route = "freeze" /\ findById(r)

\* variant: freeze that only ever freezes
setFrozen(u) == [u EXCEPT !.frozen = TRUE]

\* user.frozen = !user.frozen
toggleFrozen(u) == [u EXCEPT !.frozen = ~@]

FreezeSave(r) ==
  /\ pc[r] = "save" /\ req[r].route = "freeze"
  /\ save(r, toggleFrozen(doc[r][1]), "User ${user.frozen?'frozen':'unfrozen'}", "Failed to toggle freeze")
  /\ UNCHANGED <<nextId, req, doc, uploads>>

\* PATCH /api/users/:id/verify
VerifyFind(r) == req[r].route = "verify" /\ findById(r)

VerifySave(r) ==
  /\ pc[r] = "save" /\ req[r].route = "verify"
  /\ save(r, [doc[r][1] EXCEPT !.verified = TRUE],
          "User verified successfully", "Failed to verify user")
  /\ UNCHANGED <<nextId, req, doc, uploads>>

\* GET /api/admin/user/:id
GetUser(r) ==
  /\ pc[r] = "findById" /\ req[r].route = "getUser"
  /\ IF req[r].id \in DOMAIN users
       THEN respond(r, 200, "user") ELSE respond(r, 404, "User not found")
  /\ UNCHANGED <<users, nextId, req, doc, uploads, hist>>

\* GET /api/admin/users
ListUsers(r) ==
  /\ pc[r] = "find" /\ req[r].route = "listUsers"
  /\ respond(r, 200, "users")
  /\ UNCHANGED <<users, nextId, req, doc, uploads, hist>>

\* strict mode: an update keeps the paths of the schema only
castUpdate(upd) == [k \in DOMAIN upd \cap SchemaPaths |-> upd[k]]

\* the unique index on email, for an update of document id
duplicateEmail(store, id, upd) ==
  /\ "email" \in DOMAIN upd
  /\ \E j \in DOMAIN store \ {id} : store[j].email = upd.email

\* User.findByIdAndUpdate(id, upd): one atomic $set of the cast update
findByIdAndUpdate(r, id, upd, failMessage, okMessage) ==
  LET u == castUpdate(upd) IN
  IF id \notin DOMAIN users
    THEN respond(r, 404, "User not found") /\ UNCHANGED <<users, hist>>
  ELSE IF duplicateEmail(users, id, u)
    THEN respond(r, 500, failMessage) /\ UNCHANGED <<users, hist>>
  ELSE /\ users' = [users EXCEPT ![id] =
                      [f \in DOMAIN @ |-> IF f \in DOMAIN u THEN u[f] ELSE @[f]]]
       /\ hist' = noted(id, req[r].route, req[r].body)
       /\ respond(r, 200, okMessage)

\* PUT /api/admin/user/:id
UpdateUser(r) ==
  /\ pc[r] = "findByIdAndUpdate" /\ req[r].route = "updateUser"
  /\ findByIdAndUpdate(r, req[r].id, req[r].body,
                       "Failed to update user", "User updated")
  /\ UNCHANGED <<nextId, req, doc, uploads>>

\* variant: an allow-list that lets the password through
allowedFieldsWithPassword ==
  {"firstName", "lastName", "dob", "phone", "email", "street", "city", "state",
   "zip", "selfie", "password"}

allowedFields ==
  {"firstName", "lastName", "dob", "phone", "email", "street", "city", "state",
   "zip", "selfie"}

\* the updates object built by the allowedFields.forEach
profileUpdates(body) ==
  [k \in {f \in allowedFields \cap DOMAIN body : body[f] # ""} |-> body[k]]

\* PUT /api/update-profile
UpdateProfile(r) ==
  /\ pc[r] = "findByIdAndUpdate" /\ req[r].route = "updateProfile"
  /\ findByIdAndUpdate(r, req[r].token.id, profileUpdates(req[r].body),
                       "Failed to update profile", "Profile updated successfully")
  /\ UNCHANGED <<nextId, req, doc, uploads>>

\* DELETE /api/admin/user/:id
DeleteUser(r) ==
  /\ pc[r] = "findByIdAndDelete" /\ req[r].route = "deleteUser"
  /\ IF req[r].id \in DOMAIN users
       THEN /\ users' = [i \in DOMAIN users \ {req[r].id} |-> users[i]]
            /\ respond(r, 200, "User deleted")
       ELSE /\ users' = users
            /\ respond(r, 404, "User not found")
  /\ UNCHANGED <<nextId, req, doc, uploads, hist>>

\* the record a findOne({ email }) finds
existing(store, email) == \E i \in DOMAIN store : store[i].email = email

\* POST /api/register: User.findOne({ email }), then up to the next await
RegisterFindOne(r) ==
  /\ pc[r] = "findOne" /\ req[r].route = "register"
  /\ IF existing(users, req[r].body.email)
       THEN /\ respond(r, 400, "Email already registered")
            /\ uploads' = uploads
       ELSE /\ uploads' = [uploads EXCEPT ![r].pending = req[r].files]
            /\ pc' = [pc EXCEPT ![r] =
                        IF req[r].files = <<>> THEN "insert" ELSE "upload"]
            /\ res' = res
  /\ UNCHANGED <<users, nextId, req, doc, hist>>

\* POST /api/register: one uploadBufferToCloudinary round-trip
RegisterUpload(r) ==
  /\ pc[r] = "upload" /\ req[r].route = "register"
  /\ LET f == Head(uploads[r].pending)
         rest == Tail(uploads[r].pending)
     IN \/ /\ uploads' = [uploads EXCEPT ![r] =
                             [@ EXCEPT ![f \o "Url"] = "https://cdn/" \o f,
                                       !.pending = rest]]
           /\ pc' = [pc EXCEPT ![r] = IF rest = <<>> THEN "insert" ELSE "upload"]
           /\ res' = res
        \/ /\ uploads' = uploads
           /\ respond(r, 500, "Registration failed")
  /\ UNCHANGED <<users, nextId, req, doc, hist>>

\* variant: a collection without the unique index
noUniqueIndex(store, email) == FALSE

\* the unique index on email, for an insert
duplicateKey(store, email) == \E i \in DOMAIN store : store[i].email = email

\* POST /api/register: new User(...), user.save
RegisterSave(r) ==
  /\ pc[r] = "insert" /\ req[r].route = "register"
  /\ IF duplicateKey(users, req[r].body.email)
       THEN /\ respond(r, 400, "Email already registered")
            /\ UNCHANGED <<users, nextId>>
       ELSE /\ users' = users @@
                          (nextId :> newUser(registerFields(req[r].body), uploads[r]))
            /\ nextId' = nextId + 1
            /\ respond(r, 200, "Registration successful. Identity verification in progress.")
  /\ UNCHANGED <<req, doc, uploads, hist>>

\* the response is out and the request's objects are dropped
Finish(r) ==
  /\ pc[r] = "done"
  /\ pc' = [pc EXCEPT ![r] = "idle"]
  /\ req' = [req EXCEPT ![r] = IdleReq]
  /\ doc' = [doc EXCEPT ![r] = <<>>]
  /\ uploads' = [uploads EXCEPT ![r] = NoUploads]
  /\ res' = [res EXCEPT ![r] = NoRes]
  /\ UNCHANGED <<users, nextId, hist>>

----------------------------------------------------------------------------
\* Request sets.

AdminToken == [id |-> 0, role |-> "admin"]

LedgerBodies ==
  {[type |-> t, amount |-> a] : t \in TxEnum \cup {"bonus"}, a \in Amounts}
    \cup {[amount |-> a] : a \in Amounts}

LedgerRequests(ids) ==
  {[route |-> "transactions", auth |-> "ok", token |-> AdminToken, id |-> i,
    body |-> b, files |-> <<>>] : i \in ids, b \in LedgerBodies}

----------------------------------------------------------------------------
\* Sequential ledger appends: one request at a time.

LedgerNext ==
  \/ \E q \in LedgerRequests({0, 1}) : Begin("r1", q)
  \/ TransactionsFind("r1")
  \/ TransactionsSave("r1")
  \/ Finish("r1")

LedgerSpec == Init /\ [][LedgerNext]_vars

RECURSIVE SumOf(_, _)
SumOf(h, type) ==
  IF h = <<>> THEN 0
  ELSE (IF Head(h).type = type THEN Head(h).amount ELSE 0) + SumOf(Tail(h), type)

onlyLedgerCalls(h) ==
  \A i \in 1..Len(h) : h[i].route = "transactions" /\ h[i].type \in TxEnum

unrecognisedSave(r) ==
  /\ pc[r] = "save" /\ req[r].route = "transactions"
  /\ field(req[r].body, "type") \notin TxEnum
  /\ pc'[r] = "done"

totalsUnchanged(id) ==
  /\ users'[id].balance = users[id].balance
  /\ users'[id].totalDeposit = users[id].totalDeposit
  /\ users'[id].totalWithdrawal = users[id].totalWithdrawal
  /\ users'[id].totalInvestment = users[id].totalInvestment

appended(r) ==
  users'[req[r].id].transactions =
    Append(users[req[r].id].transactions,
           [type |-> field(req[r].body, "type"), amount |-> req[r].body.amount])

\* C4 as stated: a ledger append whose type is not deposit, withdrawal or
\* investment still appends its record to the persisted log and leaves the
\* balance and the three totals unchanged.
C4_UnrecognisedStillAppended ==
  [][\A r \in Slots : unrecognisedSave(r) =>
        appended(r) /\ totalsUnchanged(req[r].id)]_vars

\* C4 amended: a type string outside the enum fails validation (500) and
\* nothing is persisted; a request without a type appends its record and leaves
\* the balance and the three totals unchanged.
C4_UnrecognisedRejectedUnlessAbsent ==
  [][\A r \in Slots : unrecognisedSave(r) =>
        IF field(req[r].body, "type") = Undefined
          THEN /\ appended(r) /\ totalsUnchanged(req[r].id)
               /\ res'[r].status = 200
          ELSE users' = users /\ res'[r].status = 500]_vars

C4_Witness ==
  \E r \in Slots :
    /\ pc[r] = "done" /\ req[r].route = "transactions"
    /\ field(req[r].body, "type") = "bonus"
    /\ res[r].status = 500
    /\ \E i \in 1..Len(users[req[r].id].transactions) :
         users[req[r].id].transactions[i].type = Undefined

----------------------------------------------------------------------------
\* Concurrent ledger appends: two requests in flight.

ConcBodies == {[type |-> t, amount |-> a] : t \in TxEnum, a \in Amounts}

ConcRequests ==
  {q \in LedgerRequests({1}) : q.body \in ConcBodies}

ConcNext ==
  \E r \in Slots :
    \/ \E q \in ConcRequests : Begin(r, q)
    \/ TransactionsFind(r)
    \/ TransactionsSave(r)
    \/ Finish(r)

ConcSpec == Init /\ [][ConcNext]_vars

\* C2: balance = totalDeposit - totalWithdrawal - totalInvestment in every
\* persisted state of an account whose ledger fields are written by ledger
\* appends only.
C2_BalanceMatchesTotals ==
  \A id \in DOMAIN users :
    users[id].balance = users[id].totalDeposit - users[id].totalWithdrawal
                          - users[id].totalInvestment

\* C5: no persisted state has a log entry of a recognised type whose amount
\* is missing from the totals and balance, or totals and balance holding an
\* amount without a log entry: the totals and the balance are those of the log.
C5_TotalsAreThoseOfTheLog ==
  \A id \in DOMAIN users :
    LET log == users[id].transactions IN
      /\ users[id].totalDeposit = SumOf(log, "deposit")
      /\ users[id].totalWithdrawal = SumOf(log, "withdrawal")
      /\ users[id].totalInvestment = SumOf(log, "investment")
      /\ users[id].balance = SumOf(log, "deposit") - SumOf(log, "withdrawal")
                               - SumOf(log, "investment")

\* two finished ledger appends on the same account that read the same document
bothReadSame(r1, r2) ==
  /\ r1 # r2
  /\ pc[r1] = "done" /\ pc[r2] = "done"
  /\ req[r1].route = "transactions" /\ req[r2].route = "transactions"
  /\ res[r1].status = 200 /\ res[r2].status = 200
  /\ req[r1].id = req[r2].id
  /\ doc[r1] = doc[r2]

logEntry(r) == [type |-> field(req[r].body, "type"), amount |-> req[r].body.amount]

\* C3: when two ledger appends on one account both read the pre-mutation
\* document and both save, the log holds both entries while the balance and
\* each total is what one of the two requests computed from that document:
\* the other amount is lost.
C3_LostUpdate ==
  \A r1, r2 \in Slots :
    bothReadSame(r1, r2) =>
      LET pre == doc[r1][1]
          u == users[req[r1].id]
          d1 == applyTransaction(pre, req[r1].body)
          d2 == applyTransaction(pre, req[r2].body)
      IN /\ \A f \in LedgerFields : u[f] \in {d1[f], d2[f]}
         /\ u.transactions \in
              {pre.transactions \o <<logEntry(r1), logEntry(r2)>>,
               pre.transactions \o <<logEntry(r2), logEntry(r1)>>}

C3_Witness ==
  \E r1, r2 \in Slots :
    /\ bothReadSame(r1, r2)
    /\ req[r1].body.type = "deposit" /\ req[r2].body.type = "deposit"
    /\ req[r1].body.amount = 2 /\ req[r2].body.amount = -1
    /\ users[req[r1].id].balance
         # doc[r1][1].balance + req[r1].body.amount + req[r2].body.amount
    /\ users[req[r1].id].totalDeposit
         # doc[r1][1].totalDeposit + req[r1].body.amount + req[r2].body.amount

----------------------------------------------------------------------------
\* Registration from an empty collection: two requests in flight.

InitEmpty ==
  /\ users = [i \in {} |-> NoBody]
  /\ nextId = 1
  /\ pc = [s \in Slots |-> "idle"]
  /\ req = [s \in Slots |-> IdleReq]
  /\ doc = [s \in Slots |-> <<>>]
  /\ uploads = [s \in Slots |-> NoUploads]
  /\ res = [s \in Slots |-> NoRes]
  /\ hist = [i \in 0..MaxUsers |-> <<>>]

RegisterBodies ==
  {[SeedBody(e) EXCEPT !.firstName = n] : e \in Emails, n \in {"Ann", ""}}
    \cup {[SeedBody(e) EXCEPT !.firstName = "Bob"] @@ [city |-> "Rome"] : e \in Emails}

RegisterFiles == {<<>>, <<"idFront", "selfie">>}

RegisterRequests ==
  {[route |-> "register", auth |-> "none", token |-> NoToken, id |-> 0,
    body |-> b, files |-> f] : b \in RegisterBodies, f \in RegisterFiles}

RegNext ==
  \E r \in Slots :
    \/ \E q \in RegisterRequests : Begin(r, q)
    \/ RegisterFindOne(r)
    \/ RegisterUpload(r)
    \/ RegisterSave(r)
    \/ Finish(r)

RegSpec == InitEmpty /\ [][RegNext]_vars

----------------------------------------------------------------------------
\* The admin console and the profile route, one request at a time.

AdminCredentials ==
  {[auth |-> a, token |-> NoToken] : a \in {"none", "malformed", "invalid"}}
    \cup {[auth |-> "ok", token |-> [id |-> 0, role |-> ro]] :
            ro \in {"user", "admin", "absent"}}

UpdateBodies ==
  {[balance |-> 9], [transactions |-> <<>>, frozen |-> TRUE],
   [email |-> "b@x", nickname |-> "z"], [firstName |-> "Zed", nickname |-> "z"]}

AdminBodies(route) ==
  CASE route = "transactions" ->
         {[type |-> "deposit", amount |-> 2], [type |-> "withdrawal", amount |-> -1]}
    [] route = "updateUser" -> UpdateBodies
    [] OTHER -> {NoBody}

AdminRequests ==
  UNION {{[route |-> ro, auth |-> c.auth, token |-> c.token, id |-> i, body |-> b,
           files |-> <<>>] : c \in AdminCredentials, i \in {0, 1}, b \in AdminBodies(ro)}
         : ro \in AdminRoutes}

ProfileCredentials ==
  {[auth |-> "invalid", token |-> NoToken]}
    \cup {[auth |-> "ok", token |-> [id |-> i, role |-> ro]] :
            i \in {0, 1}, ro \in {"user", "admin"}}

ProfileBodies ==
  {[firstName |-> "Zed", lastName |-> "", balance |-> 9, password |-> "hack"],
   [email |-> "b@x", frozen |-> TRUE],
   [selfie |-> "s.png", phone |-> "111", transactions |-> <<>>, verified |-> TRUE,
    totalDeposit |-> 9, minDeposit |-> 9]}

ProfileRequests ==
  {[route |-> "updateProfile", auth |-> c.auth, token |-> c.token, id |-> 0,
    body |-> b, files |-> <<>>] : c \in ProfileCredentials, b \in ProfileBodies}

AdminNext ==
  \/ \E q \in AdminRequests \cup ProfileRequests : Begin("r1", q)
  \/ ListUsers("r1")
  \/ GetUser("r1")
  \/ UpdateUser("r1")
  \/ VerifyFind("r1")
  \/ VerifySave("r1")
  \/ FreezeFind("r1")
  \/ FreezeSave("r1")
  \/ TransactionsFind("r1")
  \/ TransactionsSave("r1")
  \/ DeleteUser("r1")
  \/ UpdateProfile("r1")
  \/ Finish("r1")

AdminSpec == Init /\ [][AdminNext]_vars

----------------------------------------------------------------------------

IsPrefix(a, b) == Len(a) <= Len(b) /\ SubSeq(b, 1, Len(a)) = a

\* C6: the transaction log is append-only: over every step of every exposed
\* operation that keeps the account, the earlier log is a prefix of the later.
C6_LogAppendOnly ==
  [][\A id \in DOMAIN users \cap DOMAIN users' :
        IsPrefix(users[id].transactions, users'[id].transactions)]_vars

sameEmail(r1, r2) ==
  /\ r1 # r2
  /\ req[r1].route = "register" /\ req[r2].route = "register"
  /\ req[r1].body.email = req[r2].body.email

\* C7: of two register requests with one email, in any interleaving of their
\* existence checks, uploads and inserts, the store never holds two records
\* with that email; when one succeeded the other did not, and unless it failed
\* on its own fields or uploads it was answered 400 'Email already registered';
\* no step changes a record already in the store.
C7_OneRecordPerEmail ==
  /\ [](\A e \in Emails :
          Cardinality({i \in DOMAIN users : users[i].email = e}) <= 1)
  /\ [](\A r1, r2 \in Slots :
          sameEmail(r1, r2) /\ pc[r1] = "done" /\ res[r1].status = 200
            /\ pc[r2] = "done"
          => /\ res[r2].status # 200
             /\ \/ res[r2] = Reply(400, "Email already registered")
                \/ missingRequired(req[r2].body)
                \/ res[r2].status = 500 /\ req[r2].files # <<>>)
  /\ [][\A i \in DOMAIN users : i \in DOMAIN users' /\ users'[i] = users[i]]_vars

\* the winner has inserted while the loser is already past its existence check
C7_Witness ==
  \E r1, r2 \in Slots :
    /\ sameEmail(r1, r2)
    /\ pc[r1] = "done" /\ res[r1].status = 200
    /\ pc[r2] = "insert"
    /\ req[r2].body.firstName # req[r1].body.firstName

arrives(r) == pc[r] = "idle" /\ pc'[r] # "idle"

\* C8: on every admin route a correctly signed, unexpired token whose role is
\* 'user' or missing is answered 403 without any store read or write, no
\* handler of an admin route ever runs for such a token, and a token with role
\* 'admin' reaches the handler.
C8_AdminOnly ==
  /\ [][\A r \in Slots :
          arrives(r) /\ req'[r].route \in AdminRoutes /\ req'[r].auth = "ok" =>
            IF req'[r].token.role = "admin"
              THEN pc'[r] = firstAwait(req'[r]) /\ res'[r] = NoRes
              ELSE /\ pc'[r] = "done" /\ res'[r].status = 403
                   /\ users' = users /\ doc' = doc]_vars
  /\ [](\A r \in Slots :
          pc[r] \notin {"idle", "done"} /\ req[r].route \in AdminRoutes
            => req[r].auth = "ok" /\ req[r].token.role = "admin")

C8_Witness ==
  \E r \in Slots :
    /\ pc[r] = "done" /\ req[r].route = "transactions"
    /\ req[r].auth = "ok" /\ req[r].token.role = "absent"
    /\ res[r].status = 403

\* the frozen flag right after the i-th successful write on account id
afterWrite(id, i) ==
  IF i < Len(hist[id]) THEN hist[id][i + 1].before ELSE users[id].frozen

\* C9: a successful freeze call flips the frozen flag and changes nothing
\* else of the account; two consecutive ones, with no request on the account
\* in between, leave the flag at its original value.
C9_FreezeToggles ==
  /\ [](\A id \in DOMAIN users : \A i \in 1..Len(hist[id]) :
          hist[id][i].route = "freeze" =>
            /\ afterWrite(id, i) = ~hist[id][i].before
            /\ i > 1 /\ hist[id][i - 1].route = "freeze"
                 => afterWrite(id, i) = hist[id][i - 1].before)
  /\ [][\A r \in Slots :
          pc[r] = "save" /\ req[r].route = "freeze" /\ pc'[r] = "done"
            /\ res'[r].status = 200
          => users' = [users EXCEPT ![req[r].id].frozen = ~@]]_vars

C9_Witness ==
  \E id \in DOMAIN users :
    /\ Len(hist[id]) = 3
    /\ hist[id][1].route = "updateUser"
    /\ hist[id][2].route = "freeze" /\ hist[id][3].route = "freeze"
    /\ hist[id][2].before = TRUE
    /\ users[id].frozen = TRUE

\* C10: PUT /api/update-profile changes nothing but allow-listed fields of
\* the token subject's own account, whatever the body carries.
C10_ProfileFrame ==
  [][\A r \in Slots :
       pc[r] = "findByIdAndUpdate" /\ req[r].route = "updateProfile"
         /\ pc'[r] = "done"
       => /\ DOMAIN users' = DOMAIN users
          /\ \A id \in DOMAIN users :
               /\ id # req[r].token.id => users'[id] = users[id]
               /\ \A f \in SchemaPaths \
                     {"firstName", "lastName", "dob", "phone", "email", "street",
                      "city", "state", "zip", "selfie"} :
                    users'[id][f] = users[id][f]]_vars

C10_Witness ==
  \E r \in Slots :
    /\ pc[r] = "done" /\ req[r].route = "updateProfile"
    /\ res[r].status = 200
    /\ {"balance", "password"} \subseteq DOMAIN req[r].body
    /\ req[r].token.id \in DOMAIN users
    /\ users[req[r].token.id].firstName = req[r].body.firstName
    /\ users[req[r].token.id].firstName # "Ann"

====
